---- MODULE Spec2Model ----
(***************************************************************************)
(* Model of snntorch/backprop.py: the windowed training scheduler TBPTT    *)
(* and its entry points BPTT, RTRL and BPTF.  The collaborators (network,  *)
(* criterion, regularizer, optimizer, utils) are opaque: the model records *)
(* when they are called and with what.                                     *)
(***************************************************************************)
EXTENDS Integers, Sequences, FiniteSets, TLC

\* ------------------------------------------------------------------ bounds
MaxSteps == 5
MaxBatches == 2
MaxNegK == 2
CritLoss == 3
RegPenalty == 1

\* ------------------------------------------------------- python helpers
Unbound == <<>>
Some(x) == <<x>>
IsBound(v) == v # <<>>
Val(v) == v[1]

Abs(x) == IF x < 0 THEN 0 - x ELSE x

RECURSIVE GCD(_, _)
GCD(a, b) == IF b = 0 THEN a ELSE GCD(b, a % b)

\* exact value of a python true division num / den, den # 0, in lowest terms
Rat(num, den) ==
    LET g == GCD(Abs(num), Abs(den))
        s == IF den < 0 THEN 0 - 1 ELSE 1
    IN  IF num = 0 THEN [num |-> 0, den |-> 1]
        ELSE [num |-> (s * num) \div g, den |-> (s * den) \div g]

RatAdd(a, b) == Rat(a.num * b.den + b.num * a.den, a.den * b.den)

\* python a % b for b # 0: the result has the sign of the divisor
PyMod(a, b) == IF b > 0 THEN a % b ELSE 0 - ((0 - a) % (0 - b))

\* python seq[lo:hi] on a sequence of length n, as the set of indices kept
PySliceIdx(lo, hi, n) ==
    LET norm(i) == IF i < 0 THEN (IF i + n < 0 THEN 0 ELSE i + n)
                   ELSE (IF i > n THEN n ELSE i)
    IN  {i \in 0..(n - 1) : norm(lo) <= i /\ i < norm(hi)}

\* ------------------------------------------------------------ the tables
NeuronKinds == <<"Lapicque", "Leaky", "Synaptic", "Alpha", "Stein">>

criterion_keys ==
    <<"mse_membrane_loss", "ce_max_membrane_loss", "ce_rate_loss",
      "ce_count_loss", "mse_count_loss">>

criterion_dict ==
    [k \in {criterion_keys[i] : i \in 1..Len(criterion_keys)} |->
        CASE k = "mse_membrane_loss"    -> <<FALSE, TRUE>>
          [] k = "ce_max_membrane_loss" -> <<FALSE, FALSE>>
          [] k = "ce_rate_loss"         -> <<TRUE, FALSE>>
          [] k = "ce_count_loss"        -> <<TRUE, FALSE>>
          [] k = "mse_count_loss"       -> <<TRUE, FALSE>>]

reg_dict == [k \in {"l1_rate_sparsity"} |-> TRUE]

\* ------------------------------------------------------------ the inputs
Entries == {"TBPTT", "BPTT", "RTRL", "BPTF"}
KVals == (0 - MaxNegK)..(MaxSteps + 1)
StepVals == 1..MaxSteps
KindSet == {NeuronKinds[i] : i \in 1..Len(NeuronKinds)}
CriterionNames == {criterion_keys[i] : i \in 1..Len(criterion_keys)} \cup {"unknown_loss"}
Criteria == [name : CriterionNames, time_var_targets : BOOLEAN]
Regularizers == {"None", "l1_rate_sparsity", "unknown_reg"}
NumReturnVals == 1..5

\* the configuration of the docstring example: Leaky layers, mse_count_loss
ExampleKinds == {"Leaky"}
ExampleNumReturn == 2
ExampleCriterion == [name |-> "mse_count_loss", time_var_targets |-> FALSE]

\* BPTT and RTRL take no K; BPTF's K is left at its default
WellFormedArgs(a) == a.entry # "TBPTT" => a.K = 1

\* the loss configuration varies, the network is the example's
LossFamily ==
    [entry : Entries, net_kinds : {ExampleKinds}, num_return : {ExampleNumReturn},
     num_steps : StepVals, K : KVals, criterion : Criteria,
     regularization : Regularizers, time_var : BOOLEAN]

\* the network varies, the criterion is the example's
NetFamily ==
    [entry : Entries, net_kinds : SUBSET KindSet, num_return : NumReturnVals,
     num_steps : StepVals, K : KVals, criterion : {ExampleCriterion},
     regularization : Regularizers, time_var : {FALSE}]

ArgSets == {a \in LossFamily \cup NetFamily : WellFormedArgs(a)}

VARIABLES args, pc, err, result, K, neurons_dict, loss_spk, time_var_targets,
          reg_spk, step, step_trunc, K_count, loss_trunc, loss_avg,
          spk_rec_trunc, mem_rec_trunc, batch, log, windows, called

vars == <<args, pc, err, result, K, neurons_dict, loss_spk, time_var_targets,
          reg_spk, step, step_trunc, K_count, loss_trunc, loss_avg,
          spk_rec_trunc, mem_rec_trunc, batch, log, windows, called>>

locals == <<K, neurons_dict, loss_spk, time_var_targets, reg_spk, step,
            step_trunc, K_count, loss_trunc, loss_avg, spk_rec_trunc,
            mem_rec_trunc>>

Zero == [num |-> 0, den |-> 1]

\* one recorded call of a collaborator
Ev(op) == [op |-> op, arg |-> "", i |-> 0 - 1]
EvArg(op, a) == [op |-> op, arg |-> a, i |-> 0 - 1]
EvNum(op, n) == [op |-> op, arg |-> "", i |-> n]

Ops(s) == {s[j].op : j \in 1..Len(s)}
Count(s, op) == Cardinality({j \in 1..Len(s) : s[j].op = op})

Init ==
    /\ args \in ArgSets
    /\ pc = "start"
    /\ err = "none"
    /\ result = Unbound
    /\ K = 0
    /\ neurons_dict = <<>>
    /\ loss_spk = Unbound
    /\ time_var_targets = FALSE
    /\ reg_spk = Unbound
    /\ step = 0 - 1
    /\ step_trunc = 0
    /\ K_count = 0
    /\ loss_trunc = 0
    /\ loss_avg = Zero
    /\ spk_rec_trunc = <<>>
    /\ mem_rec_trunc = <<>>
    /\ batch = 0
    /\ log = <<>>
    /\ windows = <<>>
    /\ called = {}

\* ------------------------------------------------ TBPTT, lines 92 to 161
\* variant: the bound checked one too high
KTooLarge_OffByOne(k, n) == k > n + 1
\* if K > num_steps, line 92
KTooLarge(k, n) == k > n

\* utils.reset(net) sets the flag of every neuron kind found in the network
utils_is(kind) == kind \in args.net_kinds

\* d[key] = value on a python dict kept as a sequence of <<key, value>> pairs
DictSet(d, key, value) ==
    IF \E j \in 1..Len(d) : d[j][1] = key
    THEN [j \in 1..Len(d) |-> IF d[j][1] = key THEN <<key, value>> ELSE d[j]]
    ELSE Append(d, <<key, value>>)

RECURSIVE BuildNeuronsDict(_, _)
BuildNeuronsDict(d, j) ==
    IF j > Len(NeuronKinds) THEN d
    ELSE BuildNeuronsDict(DictSet(d, utils_is(NeuronKinds[j]), NeuronKinds[j]), j + 1)

\* variant: the criterion's attribute read whatever the table says
TimeVarTargets_Always(key) == args.criterion.time_var_targets
\* time_var_targets for a matching key, lines 131-135
TimeVarTargets(key) ==
    IF criterion_dict[key][2] THEN args.criterion.time_var_targets ELSE FALSE

\* the loop over criterion_dict: <<counter, loss_spk, time_var_targets>> after
\* the keys from j on, started with counter = len(criterion_dict)
RECURSIVE CriterionLoop(_, _)
CriterionLoop(st, j) ==
    IF j > Len(criterion_keys) THEN st
    ELSE LET key == criterion_keys[j]
             hit == key = args.criterion.name
             tv == TimeVarTargets(key)
         IN  CriterionLoop(
                 [counter |-> st.counter - 1,
                  loss_spk |-> IF hit THEN Some(criterion_dict[key][1]) ELSE st.loss_spk,
                  time_var_targets |-> IF hit THEN tv ELSE st.time_var_targets],
                 j + 1)

CriterionCheck ==
    CriterionLoop([counter |-> Len(criterion_keys), loss_spk |-> Unbound,
                   time_var_targets |-> FALSE], 1)

RegLookup ==
    IF args.regularization # "None" /\ args.regularization \in DOMAIN reg_dict
    THEN Some(reg_dict[args.regularization])
    ELSE Unbound

Raise(e) ==
    /\ pc' = "raised"
    /\ err' = e

\* the body of TBPTT up to the batch loop, called with window size k
TBPTT_Begin(k) ==
    /\ K' = k
    /\ IF KTooLarge(k, args.num_steps)
       THEN /\ Raise("ValueError")
            /\ UNCHANGED <<neurons_dict, loss_spk, time_var_targets, reg_spk,
                           log, called>>
       ELSE /\ log' = <<Ev("reset")>>
            /\ called' = {"reset"}
            /\ neurons_dict' = BuildNeuronsDict(<<>>, 1)
            /\ loss_spk' = CriterionCheck.loss_spk
            /\ time_var_targets' = CriterionCheck.time_var_targets
            /\ IF CriterionCheck.counter # 0
               THEN /\ Raise("TypeError")
                    /\ UNCHANGED reg_spk
               ELSE /\ reg_spk' = RegLookup
                    /\ pc' = "batch_loop"
                    /\ UNCHANGED err
    /\ UNCHANGED <<args, result, step, step_trunc, K_count, loss_trunc, loss_avg,
                   spk_rec_trunc, mem_rec_trunc, batch, windows>>

\* variant: BPTT handing TBPTT the default window size
BPTT_K_One(n) == 1
\* the K that BPTT (line 393) and RTRL (line 490) pass on
BPTT_K(n) == n
\* variant: RTRL handing TBPTT the whole sequence as one window
RTRL_K_Full(n) == n
RTRL_K(n) == 1

CallTBPTT == pc = "start" /\ args.entry = "TBPTT" /\ TBPTT_Begin(args.K)
CallBPTT == pc = "start" /\ args.entry = "BPTT" /\ TBPTT_Begin(BPTT_K(args.num_steps))
CallRTRL == pc = "start" /\ args.entry = "RTRL" /\ TBPTT_Begin(RTRL_K(args.num_steps))

\* BPTF has a docstring and no body: it returns None
CallBPTF ==
    /\ pc = "start"
    /\ args.entry = "BPTF"
    /\ pc' = "returned"
    /\ UNCHANGED <<args, err, result, locals, batch, log, windows, called>>

\* ------------------------------------------- the batch loop, lines 161-167
\* variant: loss_avg set to 0 again for each batch
LossAvgAtBatchStart_Reset(la) == [num |-> 0, den |-> 1]
\* loss_avg is assigned before the batch loop (line 152), not inside it
LossAvgAtBatchStart(la) == la

\* variant: the per-batch reset left out
BatchPrologue_NoReset == <<Ev("train")>>
\* net.train(); utils.reset(net), lines 163-167
BatchPrologue == <<Ev("train"), Ev("reset")>>

NextBatch ==
    /\ pc = "batch_loop"
    /\ batch < MaxBatches
    /\ batch' = batch + 1
    /\ log' = BatchPrologue
    /\ called' = called \cup Ops(BatchPrologue)
    /\ windows' = <<>>
    /\ step' = 0 - 1
    /\ loss_avg' = LossAvgAtBatchStart(loss_avg)
    /\ pc' = "step_loop"
    /\ UNCHANGED <<args, err, result, K, neurons_dict, loss_spk, time_var_targets,
                   reg_spk, step_trunc, K_count, loss_trunc,
                   spk_rec_trunc, mem_rec_trunc>>

\* the data loader is exhausted: return loss_avg (line 300)
Return ==
    /\ pc = "batch_loop"
    /\ pc' = "returned"
    /\ result' = Some(loss_avg)
    /\ UNCHANGED <<args, err, locals, batch, log, windows, called>>

\* ------------------------------------------- the forward pass, lines 170-196
\* what net(...) returns at step t of batch b: num_return tensors, by position
NetOutput(b, t) == [j \in 1..args.num_return |-> [pos |-> j - 1, batch |-> b, step |-> t]]

Forward(b, t) ==
    CASE args.num_return = 2 ->
            [spk |-> Some(NetOutput(b, t)[1]), mem |-> Some(NetOutput(b, t)[2])]
      [] args.num_return = 3 ->
            [spk |-> Some(NetOutput(b, t)[1]), mem |-> Some(NetOutput(b, t)[3])]
      [] args.num_return = 4 ->
            [spk |-> Some(NetOutput(b, t)[1]), mem |-> Some(NetOutput(b, t)[4])]
      [] OTHER -> [spk |-> Unbound, mem |-> Unbound]

\* the input fed at step t: data[step] when time_var, else data
ForwardEv(t) == EvNum("forward", IF args.time_var THEN t ELSE 0 - 1)

\* ------------------------------------------- the window close
\* loss / (num_steps / K), line 234
FullWindowShare(loss, n, k) == Rat(loss * k, n)
\* variant: the remainder window weighted by its fraction of the sequence
RemainderShare_Fraction(loss, n, k) == Rat(loss * PyMod(n, k), n)
\* loss / int(num_steps % K), line 283
RemainderShare(loss, n, k) == Rat(loss, PyMod(n, k))

\* the bounds of the target slice, lines 214 and 263
SliceLo(path, kc, k, n) == kc * k
SliceHi(path, kc, k, n) ==
    IF path = "mid" THEN (kc + 1) * k ELSE kc * k + PyMod(n, k)

\* variant: the detach loop calling nothing
DetachLoop_Skip(d, j) == <<>>
RECURSIVE DetachLoop(_, _)
\* for neuron in neurons_dict: if neuron: neurons_dict[neuron].detach_hidden()
DetachLoop(d, j) ==
    IF j > Len(d) THEN <<>>
    ELSE (IF d[j][1] THEN <<EvArg("detach_hidden", d[j][2])>> ELSE <<>>)
         \o DetachLoop(d, j + 1)

\* K_count after a close: line 246 and line 289
NextKCount(path, kc) == IF path = "mid" THEN kc + 1 ELSE 0

\* variant: the remainder path always handing over the membrane buffer
ChosenBuffer_RemMem(path, ls) ==
    IF path = "rem" THEN "mem" ELSE (IF ls THEN "spk" ELSE "mem")
\* if loss_spk: criterion(spk_rec_trunc, ...) else criterion(mem_rec_trunc, ...),
\* lines 211-225 and 260-274
ChosenBuffer(path, ls) == IF ls THEN "spk" ELSE "mem"

\* variant: loss_trunc kept from one window to the next
LossTruncAfterClose_Keep(lt) == lt
\* loss_trunc = 0, lines 248 and 291
LossTruncAfterClose(lt) == 0

\* variant: the window closed one step late
WindowFull_Late(st, k) == st = k + 1
\* if step_trunc == K, line 199
WindowFull(st, k) == st = k

\* the close of a window on the buffers spkb, memb, after the calls lg
Close(path, spkb, memb, lg) ==
    LET n == args.num_steps
        failed(l, w) == [err |-> "UnboundLocalError", log |-> l, windows |-> w,
                         loss_avg |-> loss_avg, loss_trunc |-> loss_trunc,
                         K_count |-> K_count]
    IN  IF ~IsBound(loss_spk) THEN failed(lg, windows)
        ELSE
        LET chosen == ChosenBuffer(path, Val(loss_spk))
            lo == SliceLo(path, K_count, K, n)
            hi == SliceHi(path, K_count, K, n)
            win == [path |-> path,
                    buf |-> chosen,
                    items |-> IF chosen = "spk" THEN spkb ELSE memb,
                    sliced |-> time_var_targets,
                    targets |-> IF time_var_targets THEN PySliceIdx(lo, hi, n) ELSE {}]
            lg1 == Append(lg, EvArg("criterion", chosen))
            w1 == Append(windows, win)
        IN  IF args.regularization # "None" /\ ~IsBound(reg_spk) THEN failed(lg1, w1)
            ELSE
            LET reg == args.regularization # "None"
                lg2 == IF reg
                       THEN Append(lg1, EvArg("regularization",
                                              IF Val(reg_spk) THEN "spk" ELSE "mem"))
                       ELSE lg1
                loss == IF reg THEN CritLoss + RegPenalty ELSE CritLoss
                lt == loss_trunc + loss
                share == IF path = "mid" THEN FullWindowShare(loss, n, K)
                         ELSE RemainderShare(loss, n, K)
                lg3 == lg2 \o <<Ev("zero_grad"), EvNum("backward", lt), Ev("step")>>
            IN  [err |-> "none",
                 log |-> lg3 \o DetachLoop(neurons_dict, 1),
                 windows |-> w1,
                 loss_avg |-> RatAdd(loss_avg, share),
                 loss_trunc |-> LossTruncAfterClose(lt),
                 K_count |-> NextKCount(path, K_count)]

\* variant: a buffer left as it is after the close
BufferAfterClose_Keep(buf) == buf
\* spk_rec_trunc = [], mem_rec_trunc = [], lines 249-250 and 292-293
BufferAfterClose(buf) == <<>>

\* the effect of a close c, made with step_trunc = st, on the state; control
\* goes to nextpc when it succeeds
ApplyClose(c, spkb, memb, st, nextpc) ==
    /\ log' = c.log
    /\ called' = called \cup Ops(c.log)
    /\ windows' = c.windows
    /\ IF c.err # "none"
       THEN /\ Raise(c.err)
            /\ spk_rec_trunc' = spkb
            /\ mem_rec_trunc' = memb
            /\ step_trunc' = st
            /\ UNCHANGED <<K_count, loss_trunc, loss_avg>>
       ELSE /\ pc' = nextpc
            /\ K_count' = c.K_count
            /\ loss_avg' = c.loss_avg
            /\ step_trunc' = 0
            /\ loss_trunc' = c.loss_trunc
            /\ spk_rec_trunc' = BufferAfterClose(spkb)
            /\ mem_rec_trunc' = BufferAfterClose(memb)
            /\ UNCHANGED err

\* one iteration of the step loop, lines 169-250
Step ==
    /\ pc = "step_loop"
    /\ LET t == step + 1
           fw == Forward(batch, t)
           nextpc == IF t = args.num_steps - 1 THEN "after_steps" ELSE "step_loop"
       IN  /\ step' = t
           /\ IF ~IsBound(fw.spk)
              THEN /\ Raise("UnboundLocalError")
                   /\ UNCHANGED <<step_trunc, K_count, loss_trunc, loss_avg,
                                  spk_rec_trunc, mem_rec_trunc, log, windows, called>>
              ELSE LET spkb == Append(spk_rec_trunc, Val(fw.spk))
                       memb == Append(mem_rec_trunc, Val(fw.mem))
                       lg == Append(log, ForwardEv(t))
                   IN  IF WindowFull(step_trunc + 1, K)
                       THEN ApplyClose(Close("mid", spkb, memb, lg), spkb, memb,
                                       step_trunc + 1, nextpc)
                       ELSE /\ spk_rec_trunc' = spkb
                            /\ mem_rec_trunc' = memb
                            /\ step_trunc' = step_trunc + 1
                            /\ log' = lg
                            /\ called' = called \cup Ops(lg)
                            /\ pc' = nextpc
                            /\ UNCHANGED <<err, K_count, loss_trunc, loss_avg, windows>>
    /\ UNCHANGED <<args, result, K, neurons_dict, loss_spk, time_var_targets,
                   reg_spk, batch>>

\* variant: the last step index taken to be num_steps
RemainderDue_OffByOne(st, n, k) == st = n /\ PyMod(n, k) # 0
\* (step == num_steps - 1) and (num_steps % K), line 252, for K # 0
RemainderDue(st, n, k) == st = n - 1 /\ PyMod(n, k) # 0

\* the code after the step loop, lines 252-297
AfterSteps ==
    /\ pc = "after_steps"
    /\ IF step = args.num_steps - 1 /\ K = 0
       THEN /\ Raise("ZeroDivisionError")
            /\ UNCHANGED <<step_trunc, K_count, loss_trunc, loss_avg,
                           spk_rec_trunc, mem_rec_trunc, log, windows, called>>
       ELSE IF RemainderDue(step, args.num_steps, K)
            THEN ApplyClose(Close("rem", spk_rec_trunc, mem_rec_trunc, log),
                            spk_rec_trunc, mem_rec_trunc, step_trunc, "batch_loop")
            ELSE /\ pc' = "batch_loop"
                 /\ UNCHANGED <<err, step_trunc, K_count, loss_trunc, loss_avg,
                                spk_rec_trunc, mem_rec_trunc, log, windows, called>>
    /\ UNCHANGED <<args, result, K, neurons_dict, loss_spk, time_var_targets,
                   reg_spk, step, batch>>

Next ==
    \/ CallTBPTT
    \/ CallBPTT
    \/ CallRTRL
    \/ CallBPTF
    \/ NextBatch
    \/ Step
    \/ AfterSteps
    \/ Return

Spec == Init /\ [][Next]_vars

\* ===================================================== the claims
ValidK == 1 <= K /\ K <= args.num_steps
KnownCriterion == args.criterion.name \in DOMAIN criterion_dict
BatchDone == batch >= 1 /\ pc \in {"batch_loop", "returned"}
CeilDiv(n, k) == (n + k - 1) \div k
Prefix(s, j) == SubSeq(s, 1, j)
DetachCount(kind) ==
    Cardinality({j \in 1..Len(log) : log[j].op = "detach_hidden" /\ log[j].arg = kind})

\* C1: for 1 <= K <= num_steps, every batch that completes (the first and
\* every later one) has seen exactly ceil(num_steps / K) calls of
\* optimizer.step().
C1_StepsPerBatch ==
    (BatchDone /\ ValidK) => Count(log, "step") = CeilDiv(args.num_steps, K)

C1_Witness ==
    /\ BatchDone /\ ValidK /\ batch = 2
    /\ K > 1 /\ PyMod(args.num_steps, K) # 0
    /\ Count(log, "step") = CeilDiv(args.num_steps, K)

\* C2: TBPTT called with a criterion whose name is not one of the five
\* recognised names raises the TypeError of the criterion check, and no
\* forward pass of the network is attempted.
C2_UnknownCriterionRaises ==
    (args.entry = "TBPTT" /\ pc # "start" /\ ~KnownCriterion
        /\ 1 <= args.K /\ args.K <= args.num_steps)
    => (pc = "raised" /\ err = "TypeError" /\ "forward" \notin called)

\* C3: after every window close detach_hidden() has been invoked exactly once
\* for each recurrent-unit kind present in the network, whatever combination
\* of kinds it contains, and both truncation buffers are empty right after
\* the close.
C3_DetachEveryKind ==
    /\ \A kind \in KindSet :
          DetachCount(kind) = IF kind \in args.net_kinds THEN Count(log, "step") ELSE 0
    /\ (Len(log) > 0 /\ log[Len(log)].op \in {"step", "detach_hidden"})
          => (spk_rec_trunc = <<>> /\ mem_rec_trunc = <<>>)

\* C4: with a regularizer whose name is not recognised TBPTT raises no error:
\* every window close completes, the loss back-propagated is the criterion's
\* loss with no penalty, and the run returns normally.
C4_UnknownRegularizerNoError ==
    (args.regularization = "unknown_reg" /\ KnownCriterion /\ ValidK
        /\ args.num_return \in {2, 3, 4})
    => /\ pc # "raised"
       /\ \A j \in 1..Len(log) : log[j].op = "backward" => log[j].i = CritLoss
       /\ BatchDone => Count(log, "step") = Count(log, "criterion")

\* C5: with time-varying targets, window w (from 0) of every batch, of length
\* len, calls the criterion with targets[w*K : w*K + len], in the first batch
\* and in every later one, whether or not K divides num_steps.
C5_TargetSlicePerWindow ==
    (time_var_targets /\ ValidK)
    => \A w \in 1..Len(windows) :
          /\ windows[w].sliced
          /\ windows[w].targets =
                {i \in 0..(args.num_steps - 1) :
                    (w - 1) * K <= i /\ i < (w - 1) * K + Len(windows[w].items)}

\* C6: TBPTT called with K > num_steps raises ValueError before any forward
\* pass and before any optimizer, criterion, detach or reset call.
C6_KTooLargeRaisesFirst ==
    (args.entry = "TBPTT" /\ pc # "start" /\ args.K > args.num_steps)
    => (pc = "raised" /\ err = "ValueError" /\ called = {} /\ log = <<>>)

C6_Witness ==
    pc = "raised" /\ err = "ValueError" /\ args.K = args.num_steps + 1

\* C7: TBPTT called with a window size below 1 (K = 0 or K negative) fails
\* with ValueError, like K > num_steps does.
C7_KBelowOneRaises ==
    (args.entry = "TBPTT" /\ pc # "start" /\ args.K < 1)
    => (pc = "raised" /\ err = "ValueError")

\* C8: in each batch utils.reset is invoked exactly once, before the first
\* forward pass of that batch, and never between two forward passes of it.
C8_ResetOncePerBatch ==
    batch >= 1
    => /\ Count(log, "reset") = 1
       /\ \A j \in 1..Len(log) :
             log[j].op = "forward" => Count(Prefix(log, j), "reset") = 1

C8_Witness ==
    /\ batch = 2
    /\ Count(log, "forward") >= 2
    /\ Count(log, "step") >= 1
    /\ Count(log, "reset") = 1

\* C9: for a single batch whose windows all have loss L, the value returned is
\* floor(num_steps/K) * L * K / num_steps, plus L / (num_steps mod K) when
\* num_steps mod K # 0: full windows weigh 1/(num_steps/K), the remainder
\* window 1/(num_steps mod K).
WindowLosses == {log[j].i : j \in {i \in 1..Len(log) : log[i].op = "backward"}}

C10_BPTTSingleWindow ==
    (args.entry = "BPTT" /\ pc # "start")
    => /\ K = args.num_steps
       /\ \A j \in 1..Len(log) :
             log[j].op \in {"backward", "step"}
                => Count(Prefix(log, j), "forward") = args.num_steps
       /\ Count(log, "backward") <= 1
       /\ Count(log, "step") <= 1
       /\ BatchDone => (Count(log, "backward") = 1 /\ Count(log, "step") = 1)
       /\ \A w \in 1..Len(windows) : windows[w].path = "mid"

C10_Witness ==
    /\ args.entry = "BPTT" /\ BatchDone /\ batch = 2
    /\ args.num_steps >= 3
    /\ Count(log, "step") = 1

\* ---------------------------------------------------- C11 to C20
\* the index of the first forward pass after position j of the log, or the
\* position past its end
NextForward(j) ==
    LET later == {i \in (j + 1)..Len(log) : log[i].op = "forward"}
    IN  IF later = {} THEN Len(log) + 1
        ELSE CHOOSE i \in later : \A i2 \in later : i <= i2
CountBetween(lo, hi, op) ==
    Cardinality({i \in (lo + 1)..(hi - 1) : log[i].op = op})
\* the loss of one window under the constant criterion and regularizer
WindowLoss ==
    IF args.regularization = "None" THEN CritLoss ELSE CritLoss + RegPenalty
AtBatchStart == pc = "step_loop" /\ step = 0 - 1
Running == pc \in {"batch_loop", "step_loop", "after_steps", "returned"}

\* C11: RTRL runs TBPTT with K = 1: in every batch each forward pass is followed
\* by one backward pass and one optimizer step before the next forward pass,
\* which gives num_steps updates per batch, each on a window of length 1.
C11_RTRLEveryStep ==
    (args.entry = "RTRL" /\ pc # "start")
    => /\ K = 1
       /\ \A w \in 1..Len(windows) :
             windows[w].path = "mid" /\ Len(windows[w].items) = 1
       /\ pc # "raised" =>
             \A j \in 1..Len(log) :
                log[j].op = "forward"
                   => /\ CountBetween(j, NextForward(j), "backward") = 1
                      /\ CountBetween(j, NextForward(j), "step") = 1
       /\ BatchDone => Count(log, "step") = args.num_steps

C11_Witness ==
    /\ args.entry = "RTRL" /\ BatchDone /\ batch = 2
    /\ args.num_steps >= 3
    /\ Count(log, "step") = args.num_steps

\* C12: BPTF fails with a not-implemented error for any arguments: it never
\* returns normally and makes no forward pass, backward pass or optimizer step.
C12_BPTFNotImplemented ==
    (args.entry = "BPTF" /\ pc # "start")
    => (pc = "raised" /\ err = "NotImplementedError" /\ called = {})

\* C13: with an output arity outside {2, 3, 4} TBPTT fails with the dedicated
\* unsupported-output-arity error; with arity 2, 3 or 4 the first output is
\* recorded as the spike signal and the last as the membrane signal.
C13_ArityDispatch ==
    /\ (args.num_return \notin {2, 3, 4} /\ batch >= 1 /\ pc # "step_loop")
          => (pc = "raised" /\ err = "UnsupportedOutputArity")
    /\ args.num_return \in {2, 3, 4}
          => /\ \A j \in 1..Len(spk_rec_trunc) : spk_rec_trunc[j].pos = 0
             /\ \A j \in 1..Len(mem_rec_trunc) :
                   mem_rec_trunc[j].pos = args.num_return - 1

\* C14: for 1 <= K <= num_steps, between steps step_trunc is in [0, K), it is
\* the number of forward passes since the last window close (one more per
\* forward pass, 0 after a close), windows close on reaching K or at the end
\* of the sequence with a nonzero remainder, and both buffers hold exactly
\* step_trunc elements.
ForwardsSinceClose ==
    LET closes == {j \in 1..Len(log) : log[j].op = "step"}
        last == IF closes = {} THEN 0
                ELSE CHOOSE j \in closes : \A j2 \in closes : j2 <= j
    IN  Cardinality({j \in (last + 1)..Len(log) : log[j].op = "forward"})

C14_StepTruncInvariant ==
    (ValidK /\ Running)
    => /\ 0 <= step_trunc /\ step_trunc < K
       /\ step_trunc = ForwardsSinceClose
       /\ Len(spk_rec_trunc) = step_trunc
       /\ Len(mem_rec_trunc) = step_trunc
       /\ \A w \in 1..Len(windows) :
             IF windows[w].path = "mid"
             THEN Len(windows[w].items) = K
             ELSE /\ Len(windows[w].items) = args.num_steps % K
                  /\ args.num_steps % K # 0
                  /\ w = Len(windows)
                  /\ Count(log, "forward") = args.num_steps

C14_Witness ==
    /\ ValidK /\ pc = "step_loop" /\ batch = 2
    /\ K >= 3
    /\ step_trunc = 1
    /\ Len(windows) >= 1
    /\ Len(spk_rec_trunc) = 1

\* C15: at the start of every batch, before its first forward pass, step_trunc
\* and K_count are both 0, in the first batch and in every later one, whether
\* or not K divides num_steps.
C15_CountersZeroAtBatchStart ==
    (ValidK /\ AtBatchStart) => (step_trunc = 0 /\ K_count = 0)

\* C16 as stated: loss_avg is reset per batch, so it is 0 at the first forward
\* pass of every batch.
C16_LossAvgZeroAtBatchStart ==
    AtBatchStart => loss_avg = Zero

\* C16 amended: loss_avg is set to 0 once, before the batch loop, and is not
\* reset per batch: it is 0 at the first forward pass of the first batch, and
\* at the first forward pass of a later batch it is the sum of the weighted
\* window losses of all earlier batches.
C16_LossAvgAccumulates ==
    (AtBatchStart /\ K # 0)
    => LET n == args.num_steps
           f == IF K >= 1 THEN n \div K ELSE 0
           r == PyMod(n, K)
           L == WindowLoss
       IN  /\ batch = 1 => loss_avg = Zero
           /\ IF r = 0
              THEN loss_avg.num * n = (batch - 1) * f * L * K * loss_avg.den
              ELSE loss_avg.num * (n * r)
                      = (batch - 1) * (f * L * K * r + L * n) * loss_avg.den

C16_Witness ==
    /\ AtBatchStart /\ ValidK /\ batch = 2
    /\ args.num_steps % K # 0
    /\ loss_avg # Zero

\* C17: every window close is one update: zero_grad, one backward pass, one
\* optimizer step, in that order with nothing in between; what is
\* back-propagated is the loss of the current window alone, loss_trunc being 0
\* when the window's loss is added.
C17_AtomicUpdate ==
    /\ \A j \in 1..Len(log) :
          /\ log[j].op = "zero_grad"
                => /\ j + 2 <= Len(log)
                   /\ log[j + 1].op = "backward"
                   /\ log[j + 2].op = "step"
          /\ log[j].op = "backward"
                => /\ j > 1
                   /\ log[j - 1].op = "zero_grad"
                   /\ log[j].i = WindowLoss
          /\ log[j].op = "step" => (j > 1 /\ log[j - 1].op = "backward")
    /\ Running => (loss_trunc = 0 /\ Count(log, "step") = Len(windows))

C17_Witness ==
    /\ BatchDone /\ batch = 2
    /\ Count(log, "backward") >= 2
    /\ windows[Len(windows)].path = "rem"

\* C18: the detach that closes a window follows its optimizer step at once,
\* before any forward pass; detach calls are made at window boundaries only,
\* and utils.reset is never called after a forward pass of the batch.
HasDetachTarget == \E j \in 1..Len(neurons_dict) : neurons_dict[j][1]

C18_DetachBeforeNextForward ==
    \A j \in 1..Len(log) :
       /\ (log[j].op = "step" /\ HasDetachTarget)
             => (j + 1 <= Len(log) /\ log[j + 1].op = "detach_hidden")
       /\ log[j].op = "detach_hidden"
             => (j > 1 /\ log[j - 1].op \in {"step", "detach_hidden"})
       /\ log[j].op = "reset" => Count(Prefix(log, j), "forward") = 0

C18_Witness ==
    /\ batch = 2 /\ pc = "batch_loop"
    /\ Count(log, "detach_hidden") >= 2
    /\ windows[Len(windows)].path = "rem"
    /\ log[Len(log)].op = "detach_hidden"

\* C19: at every window close the criterion is given the stacked spike buffer
\* exactly for ce_rate_loss, ce_count_loss and mse_count_loss, and the stacked
\* membrane buffer for mse_membrane_loss and ce_max_membrane_loss, on the
\* mid-sequence path and on the remainder path alike.
C19_CriterionBuffer ==
    \A w \in 1..Len(windows) :
       LET spikes == args.criterion.name
                        \in {"ce_rate_loss", "ce_count_loss", "mse_count_loss"}
       IN  /\ windows[w].buf = IF spikes THEN "spk" ELSE "mem"
           /\ \A j \in 1..Len(windows[w].items) :
                 windows[w].items[j].pos = IF spikes THEN 0 ELSE args.num_return - 1

C19_Witness ==
    /\ args.criterion.name = "ce_count_loss"
    /\ \E w \in 1..Len(windows) : windows[w].path = "mid"
    /\ \E w \in 1..Len(windows) : windows[w].path = "rem" /\ windows[w].buf = "spk"

\* C20: targets are sliced per window only for mse_membrane_loss with the
\* criterion's time_var_targets attribute true; for every other criterion, or
\* with the attribute false, every window receives the full targets.
C20_SliceOnlyWhenBoth ==
    \A w \in 1..Len(windows) :
       /\ windows[w].sliced
             = (args.criterion.name = "mse_membrane_loss"
                   /\ args.criterion.time_var_targets)
       /\ ~windows[w].sliced => windows[w].targets = {}

C20_Witness ==
    /\ args.criterion.name = "ce_rate_loss"
    /\ args.criterion.time_var_targets
    /\ Len(windows) >= 2
    /\ ~windows[1].sliced /\ ~windows[2].sliced

\* ---------------------------------------------------------- C21
\* the places where the output of step t of the current batch is held: in the
\* items of a window handed to the criterion, or still in the spike buffer
HeldInWindows(t) ==
    {<<w, j>> \in (1..Len(windows)) \X (1..MaxSteps + 1) :
        /\ j <= Len(windows[w].items)
        /\ windows[w].items[j].step = t
        /\ windows[w].items[j].batch = batch}
HeldInBuffer(t) ==
    {j \in 1..Len(spk_rec_trunc) :
        spk_rec_trunc[j].step = t /\ spk_rec_trunc[j].batch = batch}

\* C21: for 1 <= K <= num_steps the windows of a batch partition its time
\* steps: the output of every forward pass is stacked into exactly one window
\* close of its own batch, the first floor(num_steps/K) windows have K items
\* and the remainder window num_steps mod K, and no window or buffer holds an
\* output of another batch.
C21_WindowsPartitionSteps ==
    (ValidK /\ Running /\ batch >= 1)
    => /\ \A t \in 0..step :
             Cardinality(HeldInWindows(t)) + Cardinality(HeldInBuffer(t)) = 1
       /\ BatchDone =>
             /\ Len(windows) = CeilDiv(args.num_steps, K)
             /\ \A t \in 0..(args.num_steps - 1) : Cardinality(HeldInWindows(t)) = 1
       /\ \A w \in 1..Len(windows) :
             /\ Len(windows[w].items)
                   = IF w <= args.num_steps \div K THEN K ELSE args.num_steps % K
             /\ \A j \in 1..Len(windows[w].items) :
                   windows[w].items[j].batch = batch
       /\ \A j \in 1..Len(spk_rec_trunc) : spk_rec_trunc[j].batch = batch
       /\ \A j \in 1..Len(mem_rec_trunc) : mem_rec_trunc[j].batch = batch

C21_Witness ==
    /\ ValidK /\ BatchDone /\ batch = 2
    /\ K >= 2 /\ args.num_steps % K # 0
    /\ Len(windows) >= 2
    /\ \A t \in 0..(args.num_steps - 1) : Cardinality(HeldInWindows(t)) = 1

====
